---- MODULE Spec2Model ----
(***************************************************************************)
(* Model of sql::QueryBuilder<Config> (src/sqlquerybuilder.hpp): the       *)
(* bounded query-assembly engine, its capacity checks, its error slot and  *)
(* its five renderers.  Two builders are driven by the same calls: qb is   *)
(* QueryBuilder<Config> with Config::ThrowOnError = false, qbT the same    *)
(* class with Config::ThrowOnError = true.                                 *)
(***************************************************************************)
EXTENDS Integers, Sequences, FiniteSets, TLC

VARIABLES
    qb,     \* the builder with ThrowOnError = false
    qbT,    \* the builder with ThrowOnError = true
    ret,    \* what the last call on qb returned or threw
    retT    \* what the last call on qbT returned or threw

vars == <<qb, qbT, ret, retT>>

(***************************************************************************)
(* Capacity policy.  The limits are template parameters (struct Config).  *)
(***************************************************************************)
MaxColumns == 2
MaxConditions == 2
MaxJoins == 1
MaxOrderBy == 1
MaxGroupBy == 1

(***************************************************************************)
(* Text helpers.  A text value is a sequence of characters; rendered SQL   *)
(* is a string.                                                            *)
(***************************************************************************)
RECURSIVE Flatten(_)
Flatten(chars) ==
    IF chars = <<>> THEN "" ELSE Head(chars) \o Flatten(Tail(chars))

RECURSIVE Joined(_, _)
Joined(parts, sep) ==
    IF parts = <<>> THEN ""
    ELSE IF Len(parts) = 1 THEN parts[1]
    ELSE parts[1] \o sep \o Joined(Tail(parts), sep)

(***************************************************************************)
(* QueryError and std::optional<QueryError>.                               *)
(***************************************************************************)
\* The message of an error built from std::format(...) is a string_view of a
\* temporary that dies with the full expression: reading it is undefined, so
\* it is carried as a marker that no path of the model renders.
DanglingMessage == "<dangling>"

QueryError(code, message) == [code |-> code, message |-> message]

nullopt == [code |-> "nullopt", message |-> ""]

(***************************************************************************)
(* SqlValue                                                                *)
(***************************************************************************)
\* escapeChars copying every character as it is.
escapeChars_keepsQuotes(str) == str

RECURSIVE escapeChars(_)
escapeChars(str) ==
    IF str = <<>> THEN <<>>
    ELSE (IF Head(str) = "'" THEN <<"'", "'">> ELSE <<Head(str)>>)
         \o escapeChars(Tail(str))

escapeString(str) == <<"'">> \o escapeChars(str) \o <<"'">>

\* Placeholder keeping a name without sigil as it is.
Placeholder_noColon(name) ==
    IF name = <<>> THEN [name_ |-> name, style_ |-> "QuestionMark"]
    ELSE IF name[1] = ":" THEN [name_ |-> name, style_ |-> "Colon"]
    ELSE IF name[1] = "@" THEN [name_ |-> name, style_ |-> "At"]
    ELSE IF name[1] = "$" THEN [name_ |-> name, style_ |-> "Dollar"]
    ELSE [name_ |-> name, style_ |-> "Colon"]

\* Placeholder(name): the style is taken from the first character of the
\* name, and a name without sigil gets a colon in front.
Placeholder(name) ==
    IF name = <<>> THEN [name_ |-> name, style_ |-> "QuestionMark"]
    ELSE IF name[1] = ":" THEN [name_ |-> name, style_ |-> "Colon"]
    ELSE IF name[1] = "@" THEN [name_ |-> name, style_ |-> "At"]
    ELSE IF name[1] = "$" THEN [name_ |-> name, style_ |-> "Dollar"]
    ELSE [name_ |-> <<":">> \o name, style_ |-> "Colon"]

PlaceholderToString(p) ==
    CASE p.style_ = "QuestionMark" -> "?"
      [] p.style_ \in {"Dollar", "Colon", "At"} -> Flatten(p.name_)
      [] OTHER -> "?"

\* ph(name): a value holding a placeholder.
ph(name) == [t |-> "Placeholder", v |-> Placeholder(name)]

toSqlString(value) ==
    CASE value.t = "Null" -> "NULL"
      [] value.t = "Int"  -> ToString(value.v)
      [] value.t = "Bool" -> IF value.v THEN "1" ELSE "0"
      [] value.t = "Text" -> Flatten(escapeString(value.v))
      [] value.t = "Placeholder" -> PlaceholderToString(value.v)
      [] OTHER -> "NULL"

(***************************************************************************)
(* Condition                                                               *)
(***************************************************************************)
opToString(op) ==
    CASE op = "Eq" -> "="
      [] op = "Ne" -> "!="
      [] op = "Lt" -> "<"
      [] op = "Le" -> "<="
      [] op = "Gt" -> ">"
      [] op = "Ge" -> ">="
      [] op = "Like" -> "LIKE"
      [] op = "NotLike" -> "NOT LIKE"
      [] op = "And" -> "AND"
      [] op = "Or" -> "OR"
      [] OTHER -> ""

\* Condition(): the default-constructed, invalid condition.
Condition == [type |-> "Invalid", op |-> "Eq", negated |-> FALSE,
              column |-> "", table |-> "", data |-> <<>>]

ConditionRaw(raw_condition) ==
    [Condition EXCEPT !.type = "Raw", !.data = <<raw_condition>>]

ConditionSimple(column, op, value) ==
    [Condition EXCEPT !.type = "SimpleValue", !.op = op, !.column = column,
                      !.data = <<value>>]

\* The column-to-column constructor losing the right table.
ConditionColumnColumn_dropsRightTable(lt, lc, op, rt, rc) ==
    [Condition EXCEPT !.type = "ColumnColumn", !.op = op,
                      !.table = lt, !.column = lc, !.data = <<rc, "">>]

\* Condition(left_table, left_column, op, right_table, right_column); data
\* is ColumnColumnData{right_column, right_table}.
ConditionColumnColumn(left_table, left_column, op, right_table, right_column) ==
    [Condition EXCEPT !.type = "ColumnColumn", !.op = op,
                      !.table = left_table, !.column = left_column,
                      !.data = <<right_column, right_table>>]

\* Condition(left_column, op, right_column): no table on either side.
ConditionColumns(left_column, op, right_column) ==
    [Condition EXCEPT !.type = "ColumnColumn", !.op = op,
                      !.column = left_column, !.data = <<right_column, "">>]

ConditionBetween(column, op, value1, value2) ==
    [Condition EXCEPT !.type = "Between", !.op = op, !.column = column,
                      !.data = <<value1, value2>>]

isNull(column) == [Condition EXCEPT !.type = "IsNull", !.column = column]

isNotNull(column) == [Condition EXCEPT !.type = "IsNotNull", !.column = column]

\* toString writing NOT in front of a negated condition, without parentheses.
ConditionToString_notWithoutParens(c) ==
    IF c.type = "Invalid" THEN "INVALID CONDITION"
    ELSE
      (IF c.negated THEN "NOT " ELSE "")
      \o (CASE c.type = "Raw" -> c.data[1]
            [] c.type = "IsNull" -> c.column \o " IS NULL"
            [] c.type = "IsNotNull" -> c.column \o " IS NOT NULL"
            [] c.type = "Between" ->
                 c.column \o " BETWEEN " \o toSqlString(c.data[1])
                          \o " AND " \o toSqlString(c.data[2])
            [] c.type = "SimpleValue" ->
                 c.column \o " " \o opToString(c.op) \o " "
                          \o toSqlString(c.data[1])
            [] c.type = "ColumnColumn" ->
                 IF c.table # "" /\ c.data[2] # ""
                 THEN c.table \o "." \o c.column \o " " \o opToString(c.op)
                      \o " " \o c.data[2] \o "." \o c.data[1]
                 ELSE c.column \o " " \o opToString(c.op) \o " " \o c.data[1]
            [] c.type = "Compound" ->
                 "(" \o c.data[1] \o ") " \o opToString(c.data[3])
                     \o " (" \o c.data[2] \o ")"
            [] c.type = "In" ->
                 c.column \o (IF c.op = "In" THEN " IN (" ELSE " NOT IN (")
                 \o Joined([i \in 1..Len(c.data) |-> toSqlString(c.data[i])],
                           ", ")
                 \o ")"
            [] OTHER -> "UNKNOWN CONDITION TYPE")
      \o ""

\* Condition::toString
ConditionToString(c) ==
    IF c.type = "Invalid" THEN "INVALID CONDITION"
    ELSE
      (IF c.negated THEN "NOT (" ELSE "")
      \o (CASE c.type = "Raw" -> c.data[1]
            [] c.type = "IsNull" -> c.column \o " IS NULL"
            [] c.type = "IsNotNull" -> c.column \o " IS NOT NULL"
            [] c.type = "Between" ->
                 c.column \o " BETWEEN " \o toSqlString(c.data[1])
                          \o " AND " \o toSqlString(c.data[2])
            [] c.type = "SimpleValue" ->
                 c.column \o " " \o opToString(c.op) \o " "
                          \o toSqlString(c.data[1])
            [] c.type = "ColumnColumn" ->
                 IF c.table # "" /\ c.data[2] # ""
                 THEN c.table \o "." \o c.column \o " " \o opToString(c.op)
                      \o " " \o c.data[2] \o "." \o c.data[1]
                 ELSE c.column \o " " \o opToString(c.op) \o " " \o c.data[1]
            [] c.type = "Compound" ->
                 "(" \o c.data[1] \o ") " \o opToString(c.data[3])
                     \o " (" \o c.data[2] \o ")"
            [] c.type = "In" ->
                 c.column \o (IF c.op = "In" THEN " IN (" ELSE " NOT IN (")
                 \o Joined([i \in 1..Len(c.data) |-> toSqlString(c.data[i])],
                           ", ")
                 \o ")"
            [] OTHER -> "UNKNOWN CONDITION TYPE")
      \o (IF c.negated THEN ")" ELSE "")

\* operator! setting the flag instead of flipping it.
opNot_setsFlag(c) == [c EXCEPT !.negated = TRUE]

\* operator! : a copy with the negation flag flipped.
opNot(c) == [c EXCEPT !.negated = ~c.negated]

\* operator&& and operator||: the operands are rendered when they are
\* composed and the compound keeps the two texts.
opAnd(left, right) ==
    [Condition EXCEPT !.type = "Compound", !.op = "And",
                      !.data = <<ConditionToString(left),
                                 ConditionToString(right), "And">>]

\* operator|| composing with the connective of operator&&.
opOr_asAnd(left, right) ==
    [Condition EXCEPT !.type = "Compound", !.op = "Or",
                      !.data = <<ConditionToString(left),
                                 ConditionToString(right), "And">>]

opOr(left, right) ==
    [Condition EXCEPT !.type = "Compound", !.op = "Or",
                      !.data = <<ConditionToString(left),
                                 ConditionToString(right), "Or">>]

\* The operators as calls: what the call returns and what its operands are
\* after it.  The three are const members taking a const reference, and
\* work on a copy or on a new condition.
callNot(this) == [this |-> this, result |-> opNot(this)]

callAnd(this, other) ==
    [this |-> this, other |-> other, result |-> opAnd(this, other)]

callOr(this, other) ==
    [this |-> this, other |-> other, result |-> opOr(this, other)]

\* Condition::in / Condition::notIn: the values beyond MaxInValues are dropped.
MaxInValues == 2

Min(a, b) == IF a < b THEN a ELSE b

\* Condition::in keeping every value it is given.
in_keepsAll(column, values) ==
    [Condition EXCEPT !.type = "In", !.op = "In", !.column = column,
                      !.data = values]

in(column, values) ==
    [Condition EXCEPT !.type = "In", !.op = "In", !.column = column,
                      !.data = SubSeq(values, 1, Min(Len(values), MaxInValues))]

notIn(column, values) == [in(column, values) EXCEPT !.op = "NotIn"]

(***************************************************************************)
(* WhereBuilder: the one condition it holds, and its calls.  A callback    *)
(* handed to where is the sequence of calls it makes on the WhereBuilder,  *)
(* each a pair of the call's name and the condition it passes.             *)
(***************************************************************************)
\* WhereBuilder() = default: condition_ is the default-constructed condition.
WhereBuilder == [condition_ |-> Condition]

isValid(c) == c.type # "Invalid"

\* WhereBuilder::condition(cond)
setCondition(w, cond) == [w EXCEPT !.condition_ = cond]

\* and_ composing with the connective of or_.
and__asOr(w, cond) ==
    IF isValid(w.condition_)
    THEN [w EXCEPT !.condition_ = opOr(w.condition_, cond)]
    ELSE [w EXCEPT !.condition_ = cond]

and_(w, cond) ==
    IF isValid(w.condition_)
    THEN [w EXCEPT !.condition_ = opAnd(w.condition_, cond)]
    ELSE [w EXCEPT !.condition_ = cond]

or_(w, cond) ==
    IF isValid(w.condition_)
    THEN [w EXCEPT !.condition_ = opOr(w.condition_, cond)]
    ELSE [w EXCEPT !.condition_ = cond]

\* WhereBuilder::build()
builderBuild(w) == w.condition_

\* builderFn(builder): the calls of the callback, made in their order.
RECURSIVE builderFn(_, _)
builderFn(w, calls) ==
    IF calls = <<>> THEN w
    ELSE builderFn(CASE Head(calls)[1] = "condition" ->
                            setCondition(w, Head(calls)[2])
                     [] Head(calls)[1] = "and_" -> and_(w, Head(calls)[2])
                     [] Head(calls)[1] = "or_" -> or_(w, Head(calls)[2]),
                   Tail(calls))

(***************************************************************************)
(* ColumnRef and Join                                                      *)
(***************************************************************************)
ColumnRef(column) == [column |-> column, function |-> "None", alias |-> ""]

Join(type, table, condition) ==
    [type |-> type, table |-> table, condition |-> condition]

(***************************************************************************)
(* QueryBuilder: state                                                     *)
(***************************************************************************)
QueryTypes ==
    {"Select", "Insert", "InsertOrReplace", "Update", "Delete", "Truncate"}

\* QueryBuilder() = default: the member initialisers.
QueryBuilder ==
    [type |-> "Select", table |-> "", distinct |-> FALSE,
     select_columns |-> <<>>, values |-> <<>>,
     where_conditions |-> <<>>, joins |-> <<>>,
     order_by |-> <<>>, group_by |-> <<>>, having |-> "",
     limit |-> -1, offset |-> -1,
     last_error |-> nullopt]

(***************************************************************************)
(* What a call hands back.  how: "self" (the builder, for chaining),       *)
(* "result" (a Result<std::string>), "text" (a std::string) or "throw"     *)
(* (a QueryError leaves the call).  err: the code of the error the call    *)
(* recorded, returned or threw, "None" when there is none.                 *)
(***************************************************************************)
Self(err) == [how |-> "self", err |-> err, text |-> ""]

Throw(error) == [how |-> "throw", err |-> error.code, text |-> error.message]

\* A call's effect: the builder after it and what the caller gets.
Effect(b, r) == [b |-> b, ret |-> r]

\* The block every capacity check runs: record the error, then throw it or
\* return the builder.
TooMany(b, ThrowOnError, code) ==
    LET error == QueryError(code, DanglingMessage)
        b1 == [b EXCEPT !.last_error = error]
    IN IF ThrowOnError THEN Effect(b1, Throw(error))
       ELSE Effect(b1, Self(code))

(***************************************************************************)
(* QueryBuilder: the fluent calls                                          *)
(***************************************************************************)
\* reset leaving the HAVING text in place.
reset_keepsHaving(b) ==
    Effect([b EXCEPT !.type = "Select", !.table = "", !.distinct = FALSE,
                     !.select_columns = <<>>, !.values = <<>>,
                     !.where_conditions = <<>>, !.joins = <<>>,
                     !.order_by = <<>>, !.group_by = <<>>,
                     !.limit = -1, !.offset = -1, !.last_error = nullopt],
           Self("None"))

reset(b) ==
    Effect([b EXCEPT !.type = "Select", !.table = "", !.distinct = FALSE,
                     !.select_columns = <<>>, !.values = <<>>,
                     !.where_conditions = <<>>, !.joins = <<>>,
                     !.order_by = <<>>, !.group_by = <<>>, !.having = "",
                     !.limit = -1, !.offset = -1, !.last_error = nullopt],
           Self("None"))

ColumnRefs(cols) == [i \in 1..Len(cols) |-> ColumnRef(cols[i])]

\* select taking the columns that still fit before it reports the overflow.
select_fillsUp(b, ThrowOnError, cols) ==
    LET b1 == [b EXCEPT !.type = "Select"]
        room == MaxColumns - Len(b1.select_columns)
    IN IF Len(cols) > room
       THEN TooMany([b1 EXCEPT !.select_columns =
                                   @ \o ColumnRefs(SubSeq(cols, 1, room))],
                    ThrowOnError, "TooManyColumns")
       ELSE Effect([b1 EXCEPT !.select_columns = @ \o ColumnRefs(cols)],
                   Self("None"))

select(b, ThrowOnError, cols) ==
    LET b1 == [b EXCEPT !.type = "Select"]
    IN IF Len(b1.select_columns) + Len(cols) > MaxColumns
       THEN TooMany(b1, ThrowOnError, "TooManyColumns")
       ELSE Effect([b1 EXCEPT !.select_columns = @ \o ColumnRefs(cols)],
                   Self("None"))

\* select(std::span<const std::string_view>): the same check, then the loop.
selectSpan(b, ThrowOnError, cols) ==
    LET b1 == [b EXCEPT !.type = "Select"]
    IN IF Len(b1.select_columns) + Len(cols) > MaxColumns
       THEN TooMany(b1, ThrowOnError, "TooManyColumns")
       ELSE Effect([b1 EXCEPT !.select_columns = @ \o ColumnRefs(cols)],
                   Self("None"))

from(b, table) == Effect([b EXCEPT !.table = table], Self("None"))

\* addCondition with the capacity check off by one.
addCondition_offByOne(b, ThrowOnError, condition) ==
    IF Len(b.where_conditions) > MaxConditions
    THEN TooMany(b, ThrowOnError, "TooManyConditions")
    ELSE Effect([b EXCEPT !.where_conditions = Append(@, condition)],
                Self("None"))

\* The shared shape of where and its variants: the capacity check, then the
\* append of the condition the variant constructs.
addCondition(b, ThrowOnError, condition) ==
    IF Len(b.where_conditions) >= MaxConditions
    THEN TooMany(b, ThrowOnError, "TooManyConditions")
    ELSE Effect([b EXCEPT !.where_conditions = Append(@, condition)],
                Self("None"))

where(b, ThrowOnError, condition) == addCondition(b, ThrowOnError, condition)

\* A kind call that also starts the predicate list afresh.
setType_dropsPredicates(b, type, table) ==
    Effect([b EXCEPT !.type = type, !.table = table,
                     !.where_conditions = <<>>],
           Self("None"))

\* A kind call that starts the statement with a clean error slot.
setType_clearsError(b, type, table) ==
    Effect([b EXCEPT !.type = type, !.table = table, !.last_error = nullopt],
           Self("None"))

setType(b, type, table) ==
    Effect([b EXCEPT !.type = type, !.table = table], Self("None"))

insert(b, table) == setType(b, "Insert", table)

insertOrReplace(b, table) == setType(b, "InsertOrReplace", table)

update(b, table) == setType(b, "Update", table)

deleteFrom(b, table) == setType(b, "Delete", table)

truncate(b, table) == setType(b, "Truncate", table)

\* value storing the pair in the last slot of a full list.
value_overwritesLast(b, ThrowOnError, column, val) ==
    IF Len(b.values) >= MaxColumns
    THEN TooMany([b EXCEPT !.values[MaxColumns] = <<column, val>>],
                 ThrowOnError, "TooManyColumns")
    ELSE Effect([b EXCEPT !.values = Append(@, <<column, val>>)],
                Self("None"))

value(b, ThrowOnError, column, val) ==
    IF Len(b.values) >= MaxColumns
    THEN TooMany(b, ThrowOnError, "TooManyColumns")
    ELSE Effect([b EXCEPT !.values = Append(@, <<column, val>>)],
                Self("None"))

\* set putting its pair in front of the pairs the list holds.
set_prepends(b, ThrowOnError, column, val) ==
    IF Len(b.values) >= MaxColumns
    THEN TooMany(b, ThrowOnError, "TooManyColumns")
    ELSE Effect([b EXCEPT !.values = <<<<column, val>>>> \o @],
                Self("None"))

set(b, ThrowOnError, column, val) ==
    IF Len(b.values) >= MaxColumns
    THEN TooMany(b, ThrowOnError, "TooManyColumns")
    ELSE Effect([b EXCEPT !.values = Append(@, <<column, val>>)],
                Self("None"))

(***************************************************************************)
(* QueryBuilder: the renderers.  Each gives the text it appended to the    *)
(* query, or the QueryError it threw.                                      *)
(***************************************************************************)
Rendered(query) == [thrown |-> FALSE, query |-> query, error |-> nullopt]

Thrown(error) == [thrown |-> TRUE, query |-> "", error |-> error]

toSql(ref) ==
    (CASE ref.function = "Count" -> "COUNT(" \o ref.column \o ")"
       [] ref.function = "Sum" -> "SUM(" \o ref.column \o ")"
       [] ref.function = "Avg" -> "AVG(" \o ref.column \o ")"
       [] ref.function = "Min" -> "MIN(" \o ref.column \o ")"
       [] ref.function = "Max" -> "MAX(" \o ref.column \o ")"
       [] ref.function = "GroupConcat" -> "GROUP_CONCAT(" \o ref.column \o ")"
       [] OTHER -> ref.column)
    \o (IF ref.alias # "" THEN " AS " \o ref.alias ELSE "")

JoinToString(j) ==
    (CASE j.type = "Inner" -> "INNER JOIN"
       [] j.type = "Left" -> "LEFT JOIN"
       [] j.type = "Right" -> "RIGHT JOIN"
       [] j.type = "Full" -> "FULL JOIN"
       [] j.type = "Cross" -> "CROSS JOIN"
       [] OTHER -> "")
    \o " " \o j.table \o " ON " \o j.condition

\* The WHERE loop shared by buildSelect, buildUpdate and buildDelete.
whereClause(b) ==
    IF Len(b.where_conditions) > 0
    THEN " WHERE "
         \o Joined([i \in 1..Len(b.where_conditions) |->
                       ConditionToString(b.where_conditions[i])], " AND ")
    ELSE ""

\* buildSelect emitting ORDER BY ahead of GROUP BY.
buildSelect_orderBeforeGroup(b) ==
    Rendered(
        "SELECT "
        \o (IF b.distinct THEN "DISTINCT " ELSE "")
        \o (IF Len(b.select_columns) = 0 THEN "*"
            ELSE Joined([i \in 1..Len(b.select_columns) |->
                            toSql(b.select_columns[i])], ", "))
        \o " FROM " \o b.table
        \o Joined([i \in 1..Len(b.joins) |->
                      " " \o JoinToString(b.joins[i])], "")
        \o whereClause(b)
        \o (IF Len(b.order_by) > 0
            THEN " ORDER BY "
                 \o Joined([i \in 1..Len(b.order_by) |->
                               b.order_by[i][1] \o " "
                               \o (IF b.order_by[i][2] THEN "ASC" ELSE "DESC")],
                           ", ")
            ELSE "")
        \o (IF Len(b.group_by) > 0
            THEN " GROUP BY " \o Joined(b.group_by, ", ")
                 \o (IF b.having # "" THEN " HAVING " \o b.having ELSE "")
            ELSE "")
        \o (IF b.limit >= 0 THEN " LIMIT " \o ToString(b.limit) ELSE "")
        \o (IF b.offset >= 0 THEN " OFFSET " \o ToString(b.offset) ELSE ""))

\* buildSelect emitting HAVING whether or not there is a GROUP BY clause.
buildSelect_havingWithoutGroup(b) ==
    Rendered(
        "SELECT "
        \o (IF b.distinct THEN "DISTINCT " ELSE "")
        \o (IF Len(b.select_columns) = 0 THEN "*"
            ELSE Joined([i \in 1..Len(b.select_columns) |->
                            toSql(b.select_columns[i])], ", "))
        \o " FROM " \o b.table
        \o Joined([i \in 1..Len(b.joins) |->
                      " " \o JoinToString(b.joins[i])], "")
        \o whereClause(b)
        \o (IF Len(b.group_by) > 0
            THEN " GROUP BY " \o Joined(b.group_by, ", ")
            ELSE "")
        \o (IF b.having # "" THEN " HAVING " \o b.having ELSE "")
        \o (IF Len(b.order_by) > 0
            THEN " ORDER BY "
                 \o Joined([i \in 1..Len(b.order_by) |->
                               b.order_by[i][1] \o " "
                               \o (IF b.order_by[i][2] THEN "ASC" ELSE "DESC")],
                           ", ")
            ELSE "")
        \o (IF b.limit >= 0 THEN " LIMIT " \o ToString(b.limit) ELSE "")
        \o (IF b.offset >= 0 THEN " OFFSET " \o ToString(b.offset) ELSE ""))

buildSelect(b) ==
    Rendered(
        "SELECT "
        \o (IF b.distinct THEN "DISTINCT " ELSE "")
        \o (IF Len(b.select_columns) = 0 THEN "*"
            ELSE Joined([i \in 1..Len(b.select_columns) |->
                            toSql(b.select_columns[i])], ", "))
        \o " FROM " \o b.table
        \o Joined([i \in 1..Len(b.joins) |->
                      " " \o JoinToString(b.joins[i])], "")
        \o whereClause(b)
        \o (IF Len(b.group_by) > 0
            THEN " GROUP BY " \o Joined(b.group_by, ", ")
                 \o (IF b.having # "" THEN " HAVING " \o b.having ELSE "")
            ELSE "")
        \o (IF Len(b.order_by) > 0
            THEN " ORDER BY "
                 \o Joined([i \in 1..Len(b.order_by) |->
                               b.order_by[i][1] \o " "
                               \o (IF b.order_by[i][2] THEN "ASC" ELSE "DESC")],
                           ", ")
            ELSE "")
        \o (IF b.limit >= 0 THEN " LIMIT " \o ToString(b.limit) ELSE "")
        \o (IF b.offset >= 0 THEN " OFFSET " \o ToString(b.offset) ELSE ""))

\* buildInsert walking the value list from its end.
buildInsert_valuesReversed(b, orReplace) ==
    IF Len(b.values) = 0
    THEN Thrown(QueryError("InvalidCondition", "No values specified for INSERT"))
    ELSE Rendered(
        "INSERT" \o (IF orReplace THEN " OR REPLACE" ELSE "")
        \o " INTO " \o b.table \o " ("
        \o Joined([i \in 1..Len(b.values) |-> b.values[i][1]], ", ")
        \o ") VALUES ("
        \o Joined([i \in 1..Len(b.values) |->
                      toSqlString(b.values[Len(b.values) + 1 - i][2])], ", ")
        \o ")")

buildInsert(b, orReplace) ==
    IF Len(b.values) = 0
    THEN Thrown(QueryError("InvalidCondition", "No values specified for INSERT"))
    ELSE Rendered(
        "INSERT" \o (IF orReplace THEN " OR REPLACE" ELSE "")
        \o " INTO " \o b.table \o " ("
        \o Joined([i \in 1..Len(b.values) |-> b.values[i][1]], ", ")
        \o ") VALUES ("
        \o Joined([i \in 1..Len(b.values) |-> toSqlString(b.values[i][2])], ", ")
        \o ")")

\* buildUpdate ending the statement with the LIMIT clause when one is set.
buildUpdate_withLimit(b) ==
    IF Len(b.values) = 0
    THEN Thrown(QueryError("InvalidCondition", "No values specified for UPDATE"))
    ELSE Rendered(
        "UPDATE " \o b.table \o " SET "
        \o Joined([i \in 1..Len(b.values) |->
                      b.values[i][1] \o " = " \o toSqlString(b.values[i][2])],
                  ", ")
        \o whereClause(b)
        \o (IF b.limit >= 0 THEN " LIMIT " \o ToString(b.limit) ELSE ""))

buildUpdate(b) ==
    IF Len(b.values) = 0
    THEN Thrown(QueryError("InvalidCondition", "No values specified for UPDATE"))
    ELSE Rendered(
        "UPDATE " \o b.table \o " SET "
        \o Joined([i \in 1..Len(b.values) |->
                      b.values[i][1] \o " = " \o toSqlString(b.values[i][2])],
                  ", ")
        \o whereClause(b))

\* buildDelete refusing a DELETE that has no predicate.
buildDelete_requiresWhere(b) ==
    IF Len(b.where_conditions) = 0
    THEN Thrown(QueryError("InvalidCondition", "No conditions for DELETE"))
    ELSE Rendered("DELETE FROM " \o b.table \o whereClause(b))

buildDelete(b) == Rendered("DELETE FROM " \o b.table \o whereClause(b))

buildTruncate(b) == Rendered("TRUNCATE TABLE " \o b.table)

(***************************************************************************)
(* QueryBuilder: buildResult and build                                     *)
(***************************************************************************)
ResultValue(query) == [how |-> "result", err |-> "None", text |-> query]

ResultError(error) == [how |-> "result", err |-> error.code,
                       text |-> error.message]

Text(err, text) == [how |-> "text", err |-> err, text |-> text]

\* struct QueryError has no base class, so the handler of buildResult,
\* catch (const std::exception&), does not match a thrown QueryError.
QueryErrorIsStdException == FALSE

\* The renderer buildResult dispatches to.
render(b) ==
    CASE b.type = "Select" -> buildSelect(b)
      [] b.type = "Insert" -> buildInsert(b, FALSE)
      [] b.type = "InsertOrReplace" -> buildInsert(b, TRUE)
      [] b.type = "Update" -> buildUpdate(b)
      [] b.type = "Delete" -> buildDelete(b)
      [] b.type = "Truncate" -> buildTruncate(b)

\* tryRender forgetting the recorded error once a statement renders.
tryRender_clearsError(b) ==
    LET r == render(b)
    IN IF ~r.thrown
       THEN Effect([b EXCEPT !.last_error = nullopt], ResultValue(r.query))
       ELSE IF QueryErrorIsStdException
       THEN LET error == QueryError("InvalidCondition", r.error.message)
            IN Effect([b EXCEPT !.last_error = error], ResultError(error))
       ELSE Effect(b, Throw(r.error))

\* The part of buildResult inside the try block and its handler.
tryRender(b) ==
    LET r == render(b)
    IN IF ~r.thrown THEN Effect(b, ResultValue(r.query))
       ELSE IF QueryErrorIsStdException
       THEN LET error == QueryError("InvalidCondition", r.error.message)
            IN Effect([b EXCEPT !.last_error = error], ResultError(error))
       ELSE Effect(b, Throw(r.error))

\* buildResult asking for a table only where values are needed.
buildResult_tableOnlyForValues(b) ==
    IF b.table = "" /\ b.type \in {"Insert", "InsertOrReplace", "Update"}
    THEN LET error == QueryError("EmptyTable", "Table name is required")
         IN Effect([b EXCEPT !.last_error = error], ResultError(error))
    ELSE tryRender(b)

\* buildResult handing out a recorded error once and clearing it.
buildResult_reportsOnce(b) ==
    IF b.last_error # nullopt
    THEN Effect([b EXCEPT !.last_error = nullopt], ResultError(b.last_error))
    ELSE IF b.table = "" /\ b.type # "Select"
    THEN LET error == QueryError("EmptyTable", "Table name is required")
         IN Effect([b EXCEPT !.last_error = error], ResultError(error))
    ELSE tryRender(b)

buildResult(b) ==
    IF b.table = "" /\ b.type # "Select"
    THEN LET error == QueryError("EmptyTable", "Table name is required")
         IN Effect([b EXCEPT !.last_error = error], ResultError(error))
    ELSE tryRender(b)

build(b, ThrowOnError) ==
    LET e == buildResult(b)
    IN IF e.ret.how = "throw" THEN e
       ELSE IF e.ret.err # "None"
       THEN IF ThrowOnError
            THEN Effect(e.b, Throw(QueryError(e.ret.err, e.ret.text)))
            ELSE Effect(e.b, Text(e.ret.err, "/* ERROR: " \o e.ret.text \o " */"))
       ELSE Effect(e.b, Text("None", e.ret.text))

(***************************************************************************)
(* QueryBuilder: the remaining fluent calls                                *)
(***************************************************************************)
\* where(Fn) dropping what a callback built when it is no valid condition.
whereFn_skipsInvalid(b, ThrowOnError, calls) ==
    LET built == builderBuild(builderFn(WhereBuilder, calls))
    IN IF isValid(built) THEN where(b, ThrowOnError, built)
       ELSE Effect(b, Self("None"))

\* where(Fn builderFn): a fresh WhereBuilder is handed to the callback and
\* what it built is added with where.
whereFn(b, ThrowOnError, calls) ==
    where(b, ThrowOnError, builderBuild(builderFn(WhereBuilder, calls)))

whereIn(b, ThrowOnError, column, values) ==
    addCondition(b, ThrowOnError, in(column, values))

whereNotIn(b, ThrowOnError, column, values) ==
    addCondition(b, ThrowOnError, notIn(column, values))

whereBetween(b, ThrowOnError, column, start, end) ==
    addCondition(b, ThrowOnError, ConditionBetween(column, "Between", start, end))

whereLike(b, ThrowOnError, column, pattern) ==
    addCondition(b, ThrowOnError,
                 ConditionSimple(column, "Like", [t |-> "Text", v |-> pattern]))

whereNull(b, ThrowOnError, column) ==
    addCondition(b, ThrowOnError, isNull(column))

whereNotNull(b, ThrowOnError, column) ==
    addCondition(b, ThrowOnError, isNotNull(column))

whereExists(b, ThrowOnError, subquery) ==
    addCondition(b, ThrowOnError, ConditionRaw("EXISTS (" \o subquery \o ")"))

whereRaw(b, ThrowOnError, rawCondition) ==
    addCondition(b, ThrowOnError, ConditionRaw(rawCondition))

\* The shared shape of innerJoin, leftJoin, rightJoin and fullJoin.
addJoin(b, ThrowOnError, type, table, condition) ==
    IF Len(b.joins) >= MaxJoins
    THEN TooMany(b, ThrowOnError, "TooManyJoins")
    ELSE Effect([b EXCEPT !.joins = Append(@, Join(type, table, condition))],
                Self("None"))

innerJoin(b, ThrowOnError, table, condition) ==
    addJoin(b, ThrowOnError, "Inner", table, condition)

leftJoin(b, ThrowOnError, table, condition) ==
    addJoin(b, ThrowOnError, "Left", table, condition)

rightJoin(b, ThrowOnError, table, condition) ==
    addJoin(b, ThrowOnError, "Right", table, condition)

fullJoin(b, ThrowOnError, table, condition) ==
    addJoin(b, ThrowOnError, "Full", table, condition)

orderBy(b, ThrowOnError, column, asc) ==
    IF Len(b.order_by) >= MaxOrderBy
    THEN TooMany(b, ThrowOnError, "TooManyOrderBy")
    ELSE Effect([b EXCEPT !.order_by = Append(@, <<column, asc>>)],
                Self("None"))

groupBy(b, ThrowOnError, column) ==
    IF Len(b.group_by) >= MaxGroupBy
    THEN TooMany(b, ThrowOnError, "TooManyGroupBy")
    ELSE Effect([b EXCEPT !.group_by = Append(@, column)], Self("None"))

having(b, condition) == Effect([b EXCEPT !.having = condition], Self("None"))

limit(b, n) == Effect([b EXCEPT !.limit = n], Self("None"))

offset(b, n) == Effect([b EXCEPT !.offset = n], Self("None"))

distinct(b) == Effect([b EXCEPT !.distinct = TRUE], Self("None"))

(***************************************************************************)
(* The callers' arguments                                                  *)
(***************************************************************************)
Tables == {"", "users"}

ColumnNames == {"id", "name"}

\* select(cols...) with zero up to MaxColumns + 1 columns.
SelectArgs == UNION {[1..n -> ColumnNames] : n \in 0..(MaxColumns + 1)}

\* A span of zero up to MaxColumns + 1 columns.
SpanArgs == {[i \in 1..n |-> "id"] : n \in 0..(MaxColumns + 1)}

IntValue(n) == [t |-> "Int", v |-> n]

BoolValue(x) == [t |-> "Bool", v |-> x]

TextValue(chars) == [t |-> "Text", v |-> chars]

\* col("active") == true and raw("age > 18")
Conditions ==
    {ConditionSimple("active", "Eq", BoolValue(TRUE)), ConditionRaw("age > 18")}

\* ("name", "O'B") and ("age", 42)
ValueArgs == {<<"name", TextValue(<<"O", "'", "B">>)>>, <<"age", IntValue(42)>>}

(***************************************************************************)
(* The calls as steps: the same call is made on both builders.             *)
(***************************************************************************)
Do(e, eT) ==
    /\ qb' = e.b
    /\ qbT' = eT.b
    /\ ret' = e.ret
    /\ retT' = eT.ret

Init ==
    /\ qb = QueryBuilder
    /\ qbT = QueryBuilder
    /\ ret = Self("None")
    /\ retT = Self("None")

CallReset == Do(reset(qb), reset(qbT))

SelectStep(cols) == Do(select(qb, FALSE, cols), select(qbT, TRUE, cols))

CallSelect == \E cols \in SelectArgs : SelectStep(cols)

SelectSpanStep(cols) ==
    Do(selectSpan(qb, FALSE, cols), selectSpan(qbT, TRUE, cols))

CallSelectSpan == \E cols \in SpanArgs : SelectSpanStep(cols)

CallFrom == \E t \in Tables : Do(from(qb, t), from(qbT, t))

CallWhere ==
    \E c \in Conditions : Do(where(qb, FALSE, c), where(qbT, TRUE, c))

CallInsert == \E t \in Tables : Do(insert(qb, t), insert(qbT, t))

CallInsertOrReplace ==
    \E t \in Tables :
        Do(insertOrReplace(qb, t), insertOrReplace(qbT, t))

CallUpdate == \E t \in Tables : Do(update(qb, t), update(qbT, t))

CallDeleteFrom ==
    \E t \in Tables : Do(deleteFrom(qb, t), deleteFrom(qbT, t))

CallTruncate ==
    \E t \in Tables : Do(truncate(qb, t), truncate(qbT, t))

CallValue ==
    \E a \in ValueArgs :
        Do(value(qb, FALSE, a[1], a[2]), value(qbT, TRUE, a[1], a[2]))

CallSet ==
    \E a \in ValueArgs :
        Do(set(qb, FALSE, a[1], a[2]), set(qbT, TRUE, a[1], a[2]))

CallBuildResult == Do(buildResult(qb), buildResult(qbT))

CallBuild == Do(build(qb, FALSE), build(qbT, TRUE))

Next ==
    \/ CallReset
    \/ CallSelect
    \/ CallSelectSpan
    \/ CallFrom
    \/ CallWhere
    \/ CallInsert
    \/ CallInsertOrReplace
    \/ CallUpdate
    \/ CallDeleteFrom
    \/ CallTruncate
    \/ CallValue
    \/ CallSet
    \/ CallBuildResult
    \/ CallBuild

Spec == Init /\ [][Next]_vars

(***************************************************************************)
(* The single-entry appends, each on its own bounded list.                 *)
(***************************************************************************)
JoinTables == {"orders"}

JoinConditions == {"users.id = orders.user_id"}

GroupColumns == {"name"}

CallWhereIn ==
    Do(whereIn(qb, FALSE, "id", <<IntValue(1), IntValue(2)>>),
       whereIn(qbT, TRUE, "id", <<IntValue(1), IntValue(2)>>))

CallWhereNotIn ==
    Do(whereNotIn(qb, FALSE, "id", <<IntValue(1), IntValue(2)>>),
       whereNotIn(qbT, TRUE, "id", <<IntValue(1), IntValue(2)>>))

CallWhereBetween ==
    Do(whereBetween(qb, FALSE, "age", IntValue(18), IntValue(65)),
       whereBetween(qbT, TRUE, "age", IntValue(18), IntValue(65)))

CallWhereLike ==
    Do(whereLike(qb, FALSE, "name", <<"J", "%">>),
       whereLike(qbT, TRUE, "name", <<"J", "%">>))

CallWhereNull ==
    Do(whereNull(qb, FALSE, "email"), whereNull(qbT, TRUE, "email"))

CallWhereNotNull ==
    Do(whereNotNull(qb, FALSE, "email"), whereNotNull(qbT, TRUE, "email"))

CallWhereExists ==
    Do(whereExists(qb, FALSE, "SELECT 1"), whereExists(qbT, TRUE, "SELECT 1"))

CallWhereRaw ==
    Do(whereRaw(qb, FALSE, "age > 18"), whereRaw(qbT, TRUE, "age > 18"))

CallInnerJoin ==
    \E t \in JoinTables, c \in JoinConditions :
        Do(innerJoin(qb, FALSE, t, c), innerJoin(qbT, TRUE, t, c))

CallLeftJoin ==
    \E t \in JoinTables, c \in JoinConditions :
        Do(leftJoin(qb, FALSE, t, c), leftJoin(qbT, TRUE, t, c))

CallRightJoin ==
    \E t \in JoinTables, c \in JoinConditions :
        Do(rightJoin(qb, FALSE, t, c), rightJoin(qbT, TRUE, t, c))

CallFullJoin ==
    \E t \in JoinTables, c \in JoinConditions :
        Do(fullJoin(qb, FALSE, t, c), fullJoin(qbT, TRUE, t, c))

CallOrderBy ==
    Do(orderBy(qb, FALSE, "name", TRUE), orderBy(qbT, TRUE, "name", TRUE))

CallGroupBy ==
    \E c \in GroupColumns : Do(groupBy(qb, FALSE, c), groupBy(qbT, TRUE, c))

NextLists ==
    \/ CallReset
    \/ CallSelectSpan
    \/ CallWhere
    \/ CallWhereIn
    \/ CallWhereNotIn
    \/ CallWhereBetween
    \/ CallWhereLike
    \/ CallWhereNull
    \/ CallWhereNotNull
    \/ CallWhereExists
    \/ CallWhereRaw
    \/ CallInnerJoin
    \/ CallLeftJoin
    \/ CallRightJoin
    \/ CallFullJoin
    \/ CallOrderBy
    \/ CallGroupBy
    \/ CallValue
    \/ CallSet

SpecLists == Init /\ [][NextLists]_vars

(***************************************************************************)
(* The clauses of a statement: every call that feeds buildSelect, made in  *)
(* any order, with deleteFrom as the kind call that follows a SELECT.      *)
(***************************************************************************)
HavingArgs == {"COUNT(*) > 1"}

LimitArgs == {10}

OffsetArgs == {0}

CallOrderByDesc ==
    Do(orderBy(qb, FALSE, "name", FALSE), orderBy(qbT, TRUE, "name", FALSE))

CallHaving == \E c \in HavingArgs : Do(having(qb, c), having(qbT, c))

CallLimit == \E n \in LimitArgs : Do(limit(qb, n), limit(qbT, n))

CallOffset == \E n \in OffsetArgs : Do(offset(qb, n), offset(qbT, n))

CallDistinct == Do(distinct(qb), distinct(qbT))

NextClauses ==
    \/ CallReset
    \/ CallSelectSpan
    \/ CallFrom
    \/ CallWhere
    \/ CallInnerJoin
    \/ CallGroupBy
    \/ CallHaving
    \/ CallOrderBy
    \/ CallOrderByDesc
    \/ CallLimit
    \/ CallOffset
    \/ CallDistinct
    \/ CallDeleteFrom
    \/ CallBuild

SpecClauses == Init /\ [][NextClauses]_vars

(***************************************************************************)
(* INSERT statements with text values: every text of up to MaxTextLen      *)
(* characters, single quotes among them.                                   *)
(***************************************************************************)
MaxTextLen == 2

TextChars == {"'", "a"}

Texts == UNION {[1..n -> TextChars] : n \in 0..MaxTextLen}

CallValueText ==
    \E s \in Texts :
        Do(value(qb, FALSE, "name", TextValue(s)),
           value(qbT, TRUE, "name", TextValue(s)))

NextValues ==
    \/ CallReset
    \/ CallInsert
    \/ CallInsertOrReplace
    \/ CallValue
    \/ CallValueText
    \/ CallBuild

SpecValues == Init /\ [][NextValues]_vars

(***************************************************************************)
(* Predicates: compositions with && and || up to two levels deep, and IN   *)
(* lists of zero up to MaxInValues + 1 values, added with where.           *)
(***************************************************************************)
\* a && b and a || b over the plain conditions.
Composed1 ==
    {opAnd(a, b) : a \in Conditions, b \in Conditions}
    \cup {opOr(a, b) : a \in Conditions, b \in Conditions}

\* (a op b) op c and a op (b op c).
Composed2 ==
    {opAnd(x, c) : x \in Composed1, c \in Conditions}
    \cup {opOr(x, c) : x \in Composed1, c \in Conditions}
    \cup {opOr(c, x) : x \in Composed1, c \in Conditions}

\* n, n - 1, ..., 1 for n from zero up to MaxInValues + 1.
InArgs == {[i \in 1..n |-> IntValue(n + 1 - i)] : n \in 0..(MaxInValues + 1)}

CallWhereComposed ==
    \E c \in Conditions \cup Composed1 \cup Composed2 :
        Do(where(qb, FALSE, c), where(qbT, TRUE, c))

CallWhereInValues ==
    \E values \in InArgs :
        Do(whereIn(qb, FALSE, "id", values), whereIn(qbT, TRUE, "id", values))

CallWhereNotInValues ==
    \E values \in InArgs :
        Do(whereNotIn(qb, FALSE, "id", values),
           whereNotIn(qbT, TRUE, "id", values))

NextConditions ==
    \/ CallReset
    \/ CallFrom
    \/ CallWhereComposed
    \/ CallWhereInValues
    \/ CallWhereNotInValues
    \/ CallBuild

SpecConditions == Init /\ [][NextConditions]_vars

(***************************************************************************)
(* Placeholders: col("id") == ph(name) for every name of up to MaxNameLen  *)
(* characters, the three sigils among them.                                *)
(***************************************************************************)
MaxNameLen == 2

NameChars == {":", "@", "$", "?"}

PlaceholderNames == UNION {[1..n -> NameChars] : n \in 0..MaxNameLen}

CallWherePlaceholder ==
    \E name \in PlaceholderNames :
        Do(where(qb, FALSE, ConditionSimple("id", "Eq", ph(name))),
           where(qbT, TRUE, ConditionSimple("id", "Eq", ph(name))))

NextPlaceholders ==
    \/ CallReset
    \/ CallFrom
    \/ CallWherePlaceholder
    \/ CallBuild

SpecPlaceholders == Init /\ [][NextPlaceholders]_vars

(***************************************************************************)
(* where with a callback: callbacks of zero up to MaxCalls calls, the i-th *)
(* call passing col("c") == i; and where with the default-constructed      *)
(* condition, plain, negated and as an operand.                            *)
(***************************************************************************)
MaxCalls == 3

CallbackCondition(i) == ConditionSimple("c", "Eq", IntValue(i))

BuilderCalls == {"condition", "and_", "or_"}

Callbacks ==
    UNION {{[i \in 1..n |-> <<names[i], CallbackCondition(i)>>] :
               names \in [1..n -> BuilderCalls]} : n \in 0..MaxCalls}

InvalidUses ==
    {Condition, opNot(Condition), opAnd(Condition, CallbackCondition(1)),
     opOr(CallbackCondition(1), Condition)}

CallWhereFn ==
    \E calls \in Callbacks :
        Do(whereFn(qb, FALSE, calls), whereFn(qbT, TRUE, calls))

CallWhereInvalid ==
    \E c \in InvalidUses : Do(where(qb, FALSE, c), where(qbT, TRUE, c))

NextWhereBuilder ==
    \/ CallReset
    \/ CallFrom
    \/ CallWhereFn
    \/ CallWhereInvalid
    \/ CallBuild

SpecWhereBuilder == Init /\ [][NextWhereBuilder]_vars

(***************************************************************************)
(* Predicates of every type, added with where: plain, negated, negated     *)
(* twice, and negated as an operand of && and ||.                          *)
(***************************************************************************)
LeftTables == {"", "users"}

RightTables == {"", "orders"}

\* col("id") == col("user_id"), with and without table on either side.
ColumnComparisons ==
    {ConditionColumnColumn(lt, "id", "Eq", rt, "user_id") :
         lt \in LeftTables, rt \in RightTables}
    \cup {ConditionColumns("id", "Eq", "user_id")}

\* One predicate or more of each type.
WellFormed ==
    {ConditionSimple("age", "Gt", IntValue(18)),
     ConditionBetween("age", "Between", IntValue(18), IntValue(65)),
     isNull("email"),
     isNotNull("email"),
     ConditionRaw("age > 18"),
     opAnd(ConditionSimple("age", "Gt", IntValue(18)), isNull("email")),
     opOr(ConditionRaw("age > 18"), isNotNull("email")),
     in("id", <<IntValue(1), IntValue(2)>>),
     notIn("id", <<IntValue(1), IntValue(2)>>)}
    \cup ColumnComparisons

CallWherePredicate ==
    \E p \in WellFormed : Do(where(qb, FALSE, p), where(qbT, TRUE, p))

CallWhereNegated ==
    \E p \in WellFormed :
        Do(where(qb, FALSE, callNot(p).result),
           where(qbT, TRUE, callNot(p).result))

CallWhereNegatedTwice ==
    \E p \in WellFormed :
        Do(where(qb, FALSE, callNot(callNot(p).result).result),
           where(qbT, TRUE, callNot(callNot(p).result).result))

CallWhereNegatedOperand ==
    \E p \in WellFormed :
        \/ Do(where(qb, FALSE, callAnd(callNot(p).result, isNull("email")).result),
              where(qbT, TRUE, callAnd(callNot(p).result, isNull("email")).result))
        \/ Do(where(qb, FALSE, callOr(isNull("email"), callNot(p).result).result),
              where(qbT, TRUE, callOr(isNull("email"), callNot(p).result).result))

NextPredicates ==
    \/ CallReset
    \/ CallFrom
    \/ CallWherePredicate
    \/ CallWhereNegated
    \/ CallWhereNegatedTwice
    \/ CallWhereNegatedOperand
    \/ CallBuild

SpecPredicates == Init /\ [][NextPredicates]_vars

(***************************************************************************)
(* Value pairs from both calls: value() passes the texts, set() the pairs  *)
(* of ValueArgs, on an INSERT or an UPDATE.                                *)
(***************************************************************************)
NextPairs ==
    \/ CallReset
    \/ CallInsert
    \/ CallUpdate
    \/ CallValueText
    \/ CallSet
    \/ CallBuild

SpecPairs == Init /\ [][NextPairs]_vars

(***************************************************************************)
(* Properties                                                              *)
(***************************************************************************)
TooManyCodes ==
    {"TooManyColumns", "TooManyConditions", "TooManyJoins", "TooManyOrderBy",
     "TooManyGroupBy"}

CountsWithinCapacity(b) ==
    /\ Len(b.select_columns) <= MaxColumns
    /\ Len(b.values) <= MaxColumns
    /\ Len(b.where_conditions) <= MaxConditions
    /\ Len(b.joins) <= MaxJoins
    /\ Len(b.order_by) <= MaxOrderBy
    /\ Len(b.group_by) <= MaxGroupBy

\* C1: after any sequence of calls every bounded list of a builder holds at
\* most its configured maximum of entries, in both error-policy modes.
C1_CountsWithinCapacity ==
    CountsWithinCapacity(qb) /\ CountsWithinCapacity(qbT)

\* C1 witness: every list is full and the last call, an append on a full
\* list, was turned down.
C1_Witness ==
    /\ Len(qb.select_columns) = MaxColumns
    /\ Len(qb.values) = MaxColumns
    /\ Len(qb.where_conditions) = MaxConditions
    /\ Len(qb.joins) = MaxJoins
    /\ Len(qb.order_by) = MaxOrderBy
    /\ Len(qb.group_by) = MaxGroupBy
    /\ ret.err \in TooManyCodes
    /\ retT.how = "throw"

\* What the single-entry appends hand back on the builder b; P is asked of
\* each.
AllConditionAppends(b, P(_)) ==
    /\ \A c \in Conditions : P(where(b, FALSE, c))
    /\ P(whereIn(b, FALSE, "id", <<IntValue(1), IntValue(2)>>))
    /\ P(whereNotIn(b, FALSE, "id", <<IntValue(1), IntValue(2)>>))
    /\ P(whereBetween(b, FALSE, "age", IntValue(18), IntValue(65)))
    /\ P(whereLike(b, FALSE, "name", <<"J", "%">>))
    /\ P(whereNull(b, FALSE, "email"))
    /\ P(whereNotNull(b, FALSE, "email"))
    /\ P(whereExists(b, FALSE, "SELECT 1"))
    /\ P(whereRaw(b, FALSE, "age > 18"))

AllJoinAppends(b, P(_)) ==
    \A t \in JoinTables, c \in JoinConditions :
        /\ P(innerJoin(b, FALSE, t, c))
        /\ P(leftJoin(b, FALSE, t, c))
        /\ P(rightJoin(b, FALSE, t, c))
        /\ P(fullJoin(b, FALSE, t, c))

AllValueAppends(b, P(_)) ==
    \A a \in ValueArgs :
        P(value(b, FALSE, a[1], a[2])) /\ P(set(b, FALSE, a[1], a[2]))

\* The call was turned down: the list named field is as it was, the error
\* named code is recorded and the builder is handed back for chaining.
TurnedDown(b, e, field, code) ==
    /\ e.b[field] = b[field]
    /\ e.b.last_error.code = code
    /\ e.ret = Self(code)

\* C2: with ThrowOnError = false a single-entry append on a list that is at
\* capacity leaves the list as it was, entry for entry, and sets lastError()
\* to the TooMany* kind of that list.
C2_FullListRejectsAppend ==
    /\ Len(qb.where_conditions) = MaxConditions
       => LET P(e) == TurnedDown(qb, e, "where_conditions", "TooManyConditions")
          IN AllConditionAppends(qb, P)
    /\ Len(qb.joins) = MaxJoins
       => LET P(e) == TurnedDown(qb, e, "joins", "TooManyJoins")
          IN AllJoinAppends(qb, P)
    /\ Len(qb.order_by) = MaxOrderBy
       => \A asc \in BOOLEAN :
              TurnedDown(qb, orderBy(qb, FALSE, "name", asc),
                         "order_by", "TooManyOrderBy")
    /\ Len(qb.group_by) = MaxGroupBy
       => \A c \in GroupColumns :
              TurnedDown(qb, groupBy(qb, FALSE, c),
                         "group_by", "TooManyGroupBy")
    /\ Len(qb.values) = MaxColumns
       => LET P(e) == TurnedDown(qb, e, "values", "TooManyColumns")
          IN AllValueAppends(qb, P)

\* C2 witness: the predicate list is full with two different entries and the
\* last call, one more where, was turned down.
C2_Witness ==
    /\ Len(qb.where_conditions) = MaxConditions
    /\ qb.where_conditions[1] # qb.where_conditions[MaxConditions]
    /\ ret.err = "TooManyConditions"
    /\ qb.last_error.code = "TooManyConditions"

\* A select call, of either overload, whose columns do not fit.
SelectTurnedDown(cols) ==
    /\ Len(qb.select_columns) + Len(cols) > MaxColumns
    /\ \/ cols \in SelectArgs /\ SelectStep(cols)
       \/ cols \in SpanArgs /\ SelectSpanStep(cols)

\* What a select call of either overload hands back on the builder b when
\* its columns do not fit; P is asked of the builder before and the effect.
AllRefusedSelects(b, P(_, _)) ==
    /\ \A cols \in SelectArgs :
           Len(b.select_columns) + Len(cols) > MaxColumns
           => P(cols, select(b, FALSE, cols))
    /\ \A cols \in SpanArgs :
           Len(b.select_columns) + Len(cols) > MaxColumns
           => P(cols, selectSpan(b, FALSE, cols))

\* C3 as stated: appending MaxColumns + 1 select columns, in several calls or
\* in one, leaves the count at MaxColumns and lastError() at TooManyColumns.
C3_AsStated ==
    LET P(cols, e) == /\ Len(e.b.select_columns) = MaxColumns
                      /\ e.b.last_error.code = "TooManyColumns"
    IN AllRefusedSelects(qb, P)

\* C3 amended: a select call whose columns would take the count above
\* MaxColumns appends none of them and sets lastError() to TooManyColumns;
\* the count is MaxColumns after it only when the list was full before it,
\* which is the case for every refused call of one column.
C3_SelectAllOrNothing ==
    LET P(cols, e) ==
            /\ e.b.select_columns = qb.select_columns
            /\ e.b.last_error.code = "TooManyColumns"
            /\ e.ret = Self("TooManyColumns")
            /\ (Len(e.b.select_columns) = MaxColumns)
                   = (Len(qb.select_columns) = MaxColumns)
            /\ Len(cols) = 1 => Len(e.b.select_columns) = MaxColumns
    IN AllRefusedSelects(qb, P)

\* C3 witness: one select call that carried more than MaxColumns columns was
\* turned down on a builder without columns.
C3_Witness ==
    /\ ret.err = "TooManyColumns"
    /\ Len(qb.values) = 0
    /\ Len(qb.select_columns) = 0

\* C4: a select call that is turned down changes nothing but the recorded
\* error: kind, table, lists and the other fields are as before the call.
C4_RejectedSelectIsNoOp ==
    [][ \A cols \in SelectArgs \cup SpanArgs :
            SelectTurnedDown(cols)
            => qb' = [qb EXCEPT !.last_error = qb'.last_error] ]_vars

\* C5: with ThrowOnError = false, while lastError() holds a TooMany* error,
\* buildResult() returns the error variant with that code.
C5_BuildResultSurfacesOverflow ==
    [][ (CallBuildResult /\ qb.last_error.code \in TooManyCodes
                         /\ qb.table # "")
        => (ret'.how = "result" /\ ret'.err = qb.last_error.code) ]_vars

NeedsValues == {"Insert", "InsertOrReplace", "Update"}

\* C6: with ThrowOnError = false, buildResult() on an Insert, InsertOrReplace
\* or Update with a table and no value pair returns the error InvalidCondition
\* and records it; build() returns the "/* ERROR: ... */" text; neither throws.
C6_NoValuesIsReturnedError ==
    [][ (qb.type \in NeedsValues /\ qb.table # "" /\ Len(qb.values) = 0)
        => /\ CallBuildResult
              => /\ ret'.how = "result"
                 /\ ret'.err = "InvalidCondition"
                 /\ qb'.last_error.code = "InvalidCondition"
           /\ CallBuild
              => /\ ret'.how = "text"
                 /\ ret'.err = "InvalidCondition" ]_vars

\* C7: buildResult() on a Select with an empty table returns the error
\* EmptyTable, in both error-policy modes, whatever columns were selected.
C7_SelectWithoutTableIsError ==
    [][ (CallBuildResult /\ qb.type = "Select" /\ qb.table = "")
        => /\ ret'.how = "result" /\ ret'.err = "EmptyTable"
           /\ retT'.how = "result" /\ retT'.err = "EmptyTable" ]_vars

\* C8: for Insert, InsertOrReplace, Update, Delete and Truncate with an empty
\* table buildResult() returns the error EmptyTable and lastError() reports
\* it, in both modes; with ThrowOnError = false build() returns the text
\* "/* ERROR: Table name is required */" and does not throw.
C8_EmptyTableIsError ==
    [][ (qb.type # "Select" /\ qb.table = "")
        => /\ CallBuildResult
              => /\ ret'.how = "result" /\ ret'.err = "EmptyTable"
                 /\ qb'.last_error.code = "EmptyTable"
                 /\ retT'.how = "result" /\ retT'.err = "EmptyTable"
                 /\ qbT'.last_error.code = "EmptyTable"
           /\ CallBuild
              => /\ ret' = Text("EmptyTable",
                                "/* ERROR: Table name is required */")
                 /\ qb'.last_error.code = "EmptyTable" ]_vars

\* C8 witness: build() on a Truncate without table returned the error text.
C8_Witness ==
    /\ qb.type = "Truncate"
    /\ qb.table = ""
    /\ ret = Text("EmptyTable", "/* ERROR: Table name is required */")
    /\ qb.last_error.code = "EmptyTable"

\* C9: for the same calls both modes classify alike: when the throwing
\* builder throws code C in a call, the other builder does not throw and its
\* lastError()/buildResult() reports C for that call; when the throwing
\* builder throws nothing, the call reports no error on the other builder.
C9_SameClassification ==
    /\ retT.how = "throw"
           => /\ ret.how # "throw"
              /\ ret.err = retT.err
              /\ qb.last_error.code = retT.err
    /\ retT.how \in {"self", "text"} => ret.err = "None"

\* C10: build() (and buildResult()) called again on a builder that was not
\* touched since the call gives the outcome the call gave: the same text,
\* the same error or the same exception.
C10_BuildTwiceSameOutcome ==
    /\ ret.how = "text" => build(qb, FALSE).ret = ret
    /\ ret.how = "result" => buildResult(qb).ret = ret
    /\ ret.how = "throw" => build(qb, FALSE).ret = ret /\ buildResult(qb).ret = ret
    /\ retT.how = "text" => build(qbT, TRUE).ret = retT
    /\ retT.how = "result" => buildResult(qbT).ret = retT
    /\ (retT.how = "throw" /\ retT.err \notin TooManyCodes)
           => build(qbT, TRUE).ret = retT

\* C10 witness: build() returned the text of an UPDATE with a predicate, and
\* an earlier call had recorded an error.
C10_Witness ==
    /\ ret.how = "text"
    /\ ret.err = "None"
    /\ qb.type = "Update"
    /\ Len(qb.where_conditions) > 0
    /\ qb.last_error # nullopt

\* What build() and buildResult() hand back on both builders; P is asked of
\* the builder before the call and of the effect.
AllBuilds(P(_, _)) ==
    /\ P(qb, buildResult(qb))
    /\ P(qb, build(qb, FALSE))
    /\ P(qbT, buildResult(qbT))
    /\ P(qbT, build(qbT, TRUE))

\* C11 as stated: build() and buildResult() change nothing that the builder
\* shows, lastError() included, also when they return an error.
C11_AsStated ==
    LET P(b, e) == e.b = b
    IN AllBuilds(P)

\* C11 amended: build() and buildResult() leave kind, table, every list,
\* HAVING, LIMIT, OFFSET and DISTINCT as they were; lastError() is as it was
\* unless the call reports EmptyTable, and then it holds that error.
C11_BuildWritesOnlyLastError ==
    LET P(b, e) ==
            /\ e.b = [b EXCEPT !.last_error = e.b.last_error]
            /\ IF e.ret.err = "EmptyTable"
               THEN e.b.last_error =
                        QueryError("EmptyTable", "Table name is required")
               ELSE e.b.last_error = b.last_error
    IN AllBuilds(P)

\* C11 witness: buildResult() on an UPDATE with value pairs and no table
\* returned EmptyTable, and lastError() now reports it.
C11_Witness ==
    /\ ret.how = "result"
    /\ ret.err = "EmptyTable"
    /\ qb.type = "Update"
    /\ Len(qb.values) > 0
    /\ qb.last_error = QueryError("EmptyTable", "Table name is required")

AllKindCalls(b, t, P(_, _)) ==
    /\ P("Insert", insert(b, t))
    /\ P("InsertOrReplace", insertOrReplace(b, t))
    /\ P("Update", update(b, t))
    /\ P("Delete", deleteFrom(b, t))
    /\ P("Truncate", truncate(b, t))

\* The predicates of b as the WHERE clause shows them, "" without predicates.
WherePart(b) ==
    IF b.where_conditions = <<>> THEN ""
    ELSE " WHERE "
         \o Joined([i \in 1..Len(b.where_conditions) |->
                       ConditionToString(b.where_conditions[i])], " AND ")

SelectClauses(b) ==
    <<"SELECT" \o (IF b.distinct THEN " DISTINCT" ELSE "")>>
    \o <<IF b.select_columns = <<>> THEN "*"
         ELSE Joined([i \in 1..Len(b.select_columns) |->
                         b.select_columns[i].column], ", ")>>
    \o <<"FROM", b.table>>
    \o [i \in 1..Len(b.joins) |->
            (CASE b.joins[i].type = "Inner" -> "INNER"
               [] b.joins[i].type = "Left" -> "LEFT"
               [] b.joins[i].type = "Right" -> "RIGHT"
               [] b.joins[i].type = "Full" -> "FULL")
            \o " JOIN " \o b.joins[i].table \o " ON " \o b.joins[i].condition]
    \o (IF b.where_conditions = <<>> THEN <<>>
        ELSE <<"WHERE",
               Joined([i \in 1..Len(b.where_conditions) |->
                          ConditionToString(b.where_conditions[i])], " AND ")>>)
    \o (IF b.group_by = <<>> THEN <<>>
        ELSE <<"GROUP BY", Joined(b.group_by, ", ")>>
             \o (IF b.having = "" THEN <<>> ELSE <<"HAVING", b.having>>))
    \o (IF b.order_by = <<>> THEN <<>>
        ELSE <<"ORDER BY",
               Joined([i \in 1..Len(b.order_by) |->
                          b.order_by[i][1]
                          \o (IF b.order_by[i][2] THEN " ASC" ELSE " DESC")],
                      ", ")>>)
    \o (IF b.limit < 0 THEN <<>> ELSE <<"LIMIT", ToString(b.limit)>>)
    \o (IF b.offset < 0 THEN <<>> ELSE <<"OFFSET", ToString(b.offset)>>)

\* The builder b, and b as a configuration with one more slot per list holds
\* it after one more join, one more group-by and one more order-by entry.
Wider(b) ==
    {b,
     [b EXCEPT !.joins = Append(@, Join("Left", "items", "items.id = orders.item")),
               !.group_by = Append(@, "id"),
               !.order_by = Append(@, <<"id", FALSE>>)]}

LoneQuote == "<lone quote>"

\* The characters of lit with each doubled quote made one.
RECURSIVE Undoubled(_)
Undoubled(lit) ==
    IF lit = <<>> THEN <<>>
    ELSE IF Head(lit) # "'" THEN <<Head(lit)>> \o Undoubled(Tail(lit))
    ELSE IF Len(lit) >= 2 /\ lit[2] = "'"
    THEN <<"'">> \o Undoubled(Tail(Tail(lit)))
    ELSE <<LoneQuote>>

NotAQuote(c) == c # "'"

\* The literal lit is the text s in quotes with every quote of s doubled.
IsQuoted(lit, s) ==
    /\ Len(lit) >= 2
    /\ lit[1] = "'"
    /\ lit[Len(lit)] = "'"
    /\ Undoubled(SubSeq(lit, 2, Len(lit) - 1)) = s
    /\ SelectSeq(lit, NotAQuote) = SelectSeq(s, NotAQuote)

\* C15: every text value renders as a literal that starts and ends with a
\* single quote; dropping the outer quotes and making each doubled quote one
\* gives the text back, and no other character is altered.
C15_EscapeRoundTrip ==
    \A i \in 1..Len(qb.values) :
        LET v == qb.values[i][2]
        IN v.t = "Text"
           => /\ IsQuoted(escapeString(v.v), v.v)
              /\ toSqlString(v) = Flatten(escapeString(v.v))

\* C15 witness: build() rendered an INSERT whose value is the text of two
\* single quotes, as a literal of six.
C15_Witness ==
    /\ Len(qb.values) = 1
    /\ qb.values[1][2] = TextValue(<<"'", "'">>)
    /\ ret = Text("None", "INSERT INTO users (name) VALUES ('''''')")

\* C20: build() on an Insert with table t and n >= 1 value pairs returns
\* "INSERT INTO t (c1, ..., cn) VALUES (r1, ..., rn)", columns and literals in
\* insertion order and of the same number; InsertOrReplace differs by the
\* verb "INSERT OR REPLACE" only.
C20_InsertPairsColumnsAndValues ==
    (qb.type \in {"Insert", "InsertOrReplace"} /\ qb.table # ""
        /\ Len(qb.values) >= 1)
    => LET cols == [i \in 1..Len(qb.values) |-> qb.values[i][1]]
           lits == [i \in 1..Len(qb.values) |-> toSqlString(qb.values[i][2])]
           verb == IF qb.type = "Insert" THEN "INSERT" ELSE "INSERT OR REPLACE"
           text == verb \o " INTO " \o qb.table
                   \o " (" \o Joined(cols, ", ") \o ")"
                   \o " VALUES (" \o Joined(lits, ", ") \o ")"
       IN /\ build(qb, FALSE).ret = Text("None", text)
          /\ build(qbT, TRUE).ret = Text("None", text)

\* C20 witness: build() returned the INSERT of a text and a number, in the
\* order value() was called.
C20_Witness ==
    /\ qb.type = "Insert"
    /\ ret = Text("None", "INSERT INTO users (name, age) VALUES ('O''B', 42)")

\* The predicates at hand in a state: the plain conditions and the entries
\* of the predicate list, compositions among them.
PredicatesAtHand == Conditions \cup {qb.where_conditions[i] :
                                        i \in 1..Len(qb.where_conditions)}

\* C16: with A, B, C the renderings of a, b, c: a && b renders "(A) AND (B)",
\* a || b renders "(A) OR (B)" and (a && b) || c renders
\* "((A) AND (B)) OR (C)": every operand is in its own parentheses at every
\* depth.
C16_CompositionIsParenthesized ==
    \A a \in PredicatesAtHand, b \in PredicatesAtHand, c \in Conditions :
        LET A == ConditionToString(a)
            B == ConditionToString(b)
            C == ConditionToString(c)
        IN /\ ConditionToString(opAnd(a, b)) = "(" \o A \o ") AND (" \o B \o ")"
           /\ ConditionToString(opOr(a, b)) = "(" \o A \o ") OR (" \o B \o ")"
           /\ ConditionToString(opOr(opAnd(a, b), c))
                  = "((" \o A \o ") AND (" \o B \o ")) OR (" \o C \o ")"

\* C16 witness: build() rendered (a && b) || c as the only predicate of a
\* SELECT.
C16_Witness ==
    /\ Len(qb.where_conditions) = 1
    /\ qb.where_conditions[1]
           = opOr(opAnd(ConditionSimple("active", "Eq", BoolValue(TRUE)),
                        ConditionRaw("age > 18")),
                  ConditionRaw("age > 18"))
    /\ ret = Text("None",
                  "SELECT * FROM users WHERE "
                  \o "((active = 1) AND (age > 18)) OR (age > 18)")

\* C17: an OR composition added with where() is one operand of the AND that
\* joins the list: followed by a predicate c, the WHERE clause reads
\* ((A) OR (B)) AND C.
C17_OrIsOneOperandOfTheListAnd ==
    (/\ Len(qb.where_conditions) = 2
     /\ qb.where_conditions[1].type = "Compound"
     /\ qb.where_conditions[1].op = "Or"
     /\ qb.table # "")
    => build(qb, FALSE).ret
           = Text("None",
                  "SELECT * FROM " \o qb.table \o " WHERE ("
                  \o ConditionToString(qb.where_conditions[1]) \o ") AND "
                  \o ConditionToString(qb.where_conditions[2]))

\* The values in(column, values) is to keep: the first MaxInValues of them.
Kept(values) ==
    [i \in 1..(IF Len(values) > MaxInValues THEN MaxInValues ELSE Len(values))
        |-> values[i]]

Literals(values) == [i \in 1..Len(values) |-> toSqlString(values[i])]

\* C18: in and notIn with more than MaxInValues values keep the first
\* MaxInValues in their order and render "column IN (v1, ..., vMax)" or
\* "... NOT IN (...)"; with fewer values all are kept in order; whereIn and
\* whereNotIn on a list with room record no error and do not throw.
C18_InKeepsFirstMaxInValues ==
    \A values \in InArgs :
        /\ in("id", values).data = Kept(values)
        /\ notIn("id", values).data = Kept(values)
        /\ ConditionToString(in("id", values))
               = "id IN (" \o Joined(Literals(Kept(values)), ", ") \o ")"
        /\ ConditionToString(notIn("id", values))
               = "id NOT IN (" \o Joined(Literals(Kept(values)), ", ") \o ")"
        /\ Len(qb.where_conditions) < MaxConditions
           => /\ whereIn(qb, FALSE, "id", values).ret = Self("None")
              /\ whereIn(qb, FALSE, "id", values).b.last_error = qb.last_error
              /\ whereIn(qb, FALSE, "id", values).b.where_conditions
                     = Append(qb.where_conditions, in("id", Kept(values)))
              /\ whereNotIn(qbT, TRUE, "id", values).ret = Self("None")
              /\ whereNotIn(qbT, TRUE, "id", values).b.last_error
                     = qbT.last_error

\* C18 witness: whereIn was given MaxInValues + 1 values, counting down from
\* MaxInValues + 1; the predicate holds the first MaxInValues of them, no
\* error is recorded and build() rendered the statement.
C18_Witness ==
    /\ Len(qb.where_conditions) = 1
    /\ qb.where_conditions[1].type = "In"
    /\ Len(qb.where_conditions[1].data) = MaxInValues
    /\ qb.where_conditions[1].data[1] = IntValue(MaxInValues + 1)
    /\ qb.last_error = nullopt
    /\ ret.how = "text"
    /\ ret.err = "None"
    /\ qb.table # ""

Sigils == {":", "@", "$"}

\* What a placeholder of the given name is to render as.
PlaceholderText(name) ==
    IF name = <<>> THEN "?"
    ELSE IF name[1] \in Sigils THEN Flatten(name)
    ELSE ":" \o Flatten(name)

\* C19: a placeholder renders "?" for the empty name, the name unchanged when
\* its first character is ":", "@" or "$", and ":" followed by the name
\* otherwise; so it always renders "?" or a name that starts with a sigil.
C19_PlaceholderRendering ==
    /\ \A name \in PlaceholderNames :
           /\ PlaceholderToString(Placeholder(name)) = PlaceholderText(name)
           /\ ConditionToString(ConditionSimple("id", "Eq", ph(name)))
                  = "id = " \o PlaceholderText(name)
    /\ \A i \in 1..Len(qb.where_conditions) :
           LET p == qb.where_conditions[i].data[1].v
           IN \/ PlaceholderToString(p) = "?"
              \/ /\ p.name_ # <<>>
                 /\ p.name_[1] \in Sigils
                 /\ PlaceholderToString(p) = Flatten(p.name_)

\* C19 witness: build() rendered the placeholders of the empty name and of
\* the name "?".
C19_Witness ==
    ret = Text("None", "SELECT * FROM users WHERE id = ? AND id = :?")

\* C21: buildResult() on a Delete with a table succeeds and records nothing:
\* without predicates the text is exactly "DELETE FROM t", with predicates
\* "DELETE FROM t WHERE p1 AND ... AND pn" in insertion order.
C21_DeleteWhereIsOptional ==
    /\ (qb.type = "Delete" /\ qb.table # "")
       => /\ buildResult(qb)
                 = Effect(qb, ResultValue("DELETE FROM " \o qb.table
                                          \o WherePart(qb)))
          /\ qb.where_conditions = <<>>
             => buildResult(qb).ret.text = "DELETE FROM " \o qb.table
    /\ (qbT.type = "Delete" /\ qbT.table # "")
       => buildResult(qbT)
              = Effect(qbT, ResultValue("DELETE FROM " \o qbT.table
                                        \o WherePart(qbT)))

\* C21 witness: buildResult() returned the DELETE of every row on a builder
\* that holds no predicate and no error.
C21_Witness ==
    /\ qb.type = "Delete"
    /\ qb.where_conditions = <<>>
    /\ qb.last_error = nullopt
    /\ ret = ResultValue("DELETE FROM users")

InvalidMarker == "INVALID CONDITION"

\* The ways of handing where a condition that is not valid, made on the
\* builder b; P is asked of each effect.
AllInvalidWheres(b, ThrowOnError, P(_)) ==
    /\ P(where(b, ThrowOnError, Condition))
    /\ P(where(b, ThrowOnError, opNot(Condition)))
    /\ P(whereFn(b, ThrowOnError, <<>>))
    /\ P(whereFn(b, ThrowOnError, <<<<"condition", Condition>>>>))
    /\ P(whereFn(b, ThrowOnError, <<<<"and_", opNot(Condition)>>>>))
    /\ P(whereFn(b, ThrowOnError, <<<<"or_", Condition>>>>))

\* C22: the default-constructed condition renders as "INVALID CONDITION",
\* never as empty text: plain, negated, and as an operand of && and ||; added
\* to a builder with where(), a callback that adds no condition included, it
\* is the marker in the rendered WHERE clause.
C22_InvalidRendersAsMarker ==
    /\ ConditionToString(Condition) = InvalidMarker
    /\ ConditionToString(opNot(Condition)) = InvalidMarker
    /\ ConditionToString(opNot(opNot(Condition))) = InvalidMarker
    /\ \A c \in PredicatesAtHand \cup {Condition} :
           LET C == ConditionToString(c)
               I == "(" \o InvalidMarker \o ")"
           IN /\ ConditionToString(opAnd(Condition, c)) = I \o " AND (" \o C \o ")"
              /\ ConditionToString(opAnd(c, Condition)) = "(" \o C \o ") AND " \o I
              /\ ConditionToString(opOr(Condition, c)) = I \o " OR (" \o C \o ")"
              /\ ConditionToString(opOr(c, opNot(Condition)))
                     = "(" \o C \o ") OR " \o I
    /\ Len(qb.where_conditions) < MaxConditions
       => LET P(e) ==
                  /\ e.ret = Self("None")
                  /\ Len(e.b.where_conditions) = Len(qb.where_conditions) + 1
                  /\ e.b.table # ""
                     => build(e.b, FALSE).ret
                            = Text("None",
                                   "SELECT * FROM " \o e.b.table
                                   \o (IF qb.where_conditions = <<>>
                                       THEN " WHERE "
                                       ELSE WherePart(qb) \o " AND ")
                                   \o InvalidMarker)
          IN AllInvalidWheres(qb, FALSE, P) /\ AllInvalidWheres(qbT, TRUE, P)

\* C22 witness: build() rendered a SELECT whose predicates are what a
\* callback without calls built and the negation of the default-constructed
\* condition.
C22_Witness ==
    /\ qb.where_conditions = <<Condition, opNot(Condition)>>
    /\ ret = Text("None",
                  "SELECT * FROM users WHERE INVALID CONDITION"
                  \o " AND INVALID CONDITION")

\* The text a callback's calls fold to, left to right: a call on a builder
\* that holds nothing yet (text "") gives the text of its condition, a later
\* and_ or or_ puts both sides in parentheses around the connective, and
\* condition starts afresh.
RECURSIVE Folded(_, _)
Folded(text, calls) ==
    IF calls = <<>> THEN text
    ELSE LET name == Head(calls)[1]
             C == ConditionToString(Head(calls)[2])
         IN Folded(IF name = "condition" \/ text = "" THEN C
                   ELSE "(" \o text \o ")"
                        \o (IF name = "and_" THEN " AND " ELSE " OR ")
                        \o "(" \o C \o ")",
                   Tail(calls))

\* The WhereBuilders at hand in a state: the fresh one and one holding each
\* entry of the predicate list.
BuildersAtHand ==
    {WhereBuilder} \cup {[condition_ |-> qb.where_conditions[i]] :
                            i \in 1..Len(qb.where_conditions)}

\* C30: and_(c) and or_(c) on a WhereBuilder that holds no valid condition
\* store c as it is; on one holding a valid condition that renders P they
\* store the composition that renders "(P) AND (C)" or "(P) OR (C)"; so the
\* calls fold left to right, and c1, and_(c2), or_(c3) renders
\* "((C1) AND (C2)) OR (C3)".
C30_WhereBuilderFoldsLeftToRight ==
    /\ \A w \in BuildersAtHand, i \in 1..(MaxCalls + 1) :
           LET c == CallbackCondition(i)
               P == ConditionToString(w.condition_)
               C == ConditionToString(c)
           IN IF isValid(w.condition_)
              THEN /\ ConditionToString(and_(w, c).condition_)
                          = "(" \o P \o ") AND (" \o C \o ")"
                   /\ ConditionToString(or_(w, c).condition_)
                          = "(" \o P \o ") OR (" \o C \o ")"
              ELSE /\ and_(w, c).condition_ = c
                   /\ or_(w, c).condition_ = c
    /\ \A calls \in Callbacks :
           LET built == builderBuild(builderFn(WhereBuilder, calls))
           IN /\ calls = <<>> => built = Condition
              /\ calls # <<>> => ConditionToString(built) = Folded("", calls)
    /\ \A first \in BuilderCalls :
           ConditionToString(builderBuild(builderFn(WhereBuilder,
               <<<<first, CallbackCondition(1)>>,
                 <<"and_", CallbackCondition(2)>>,
                 <<"or_", CallbackCondition(3)>>>>)))
               = "((c = 1) AND (c = 2)) OR (c = 3)"

\* C30 witness: build() rendered the one predicate that the callback
\* and_(c1), and_(c2), or_(c3) built.
C30_Witness ==
    /\ Len(qb.where_conditions) = 1
    /\ ret = Text("None",
                  "SELECT * FROM users WHERE ((c = 1) AND (c = 2)) OR (c = 3)")

\* The well-formed predicates at hand in a state: the valid entries of the
\* predicate list, which every predicate of WellFormed, its negation and the
\* compositions over its negation come to be.
WellFormedAtHand ==
    {qb.where_conditions[i] :
        i \in {j \in 1..Len(qb.where_conditions) :
                  isValid(qb.where_conditions[j])}}

\* !p renders N, also as an operand of && and ||.
NegationRenders(p, N) ==
    /\ ConditionToString(opNot(p)) = N
    /\ \A q \in WellFormed :
           LET Q == ConditionToString(q)
           IN /\ ConditionToString(opAnd(opNot(p), q))
                     = "(" \o N \o ") AND (" \o Q \o ")"
              /\ ConditionToString(opOr(q, opNot(p)))
                     = "(" \o Q \o ") OR (" \o N \o ")"

\* C23 as stated: for a predicate p of any well-formed type that renders P,
\* !p renders "NOT (P)", alone and as an operand of && and ||.
C23_AsStated ==
    \A p \in WellFormedAtHand :
        NegationRenders(p, "NOT (" \o ConditionToString(p) \o ")")

\* C23 amended: for a predicate p of any well-formed type that is not itself
\* a negation and renders P, !p renders "NOT (P)", alone and as an operand of
\* && and ||; for a negation p = !q, which renders "NOT (Q)", !p renders Q:
\* the flag is flipped back and there is no second wrapper.
C23_NegationWrapsWholeNode ==
    \A p \in WellFormedAtHand :
        LET plain == [p EXCEPT !.negated = FALSE]
        IN IF p.negated
           THEN /\ ConditionToString(p)
                       = "NOT (" \o ConditionToString(plain) \o ")"
                /\ NegationRenders(p, ConditionToString(plain))
           ELSE NegationRenders(p, "NOT (" \o ConditionToString(p) \o ")")

\* C23 witness: build() rendered the negation of a composition and a
\* composition with a negated IN list as its operand.
C23_Witness ==
    ret = Text("None",
               "SELECT * FROM users WHERE "
               \o "NOT ((age > 18) AND (email IS NULL))"
               \o " AND (NOT (id IN (1, 2))) AND (email IS NULL)")

\* "left OP right" for the two comparison operators tried.
Compared(left, op, right) ==
    left \o (IF op = "Eq" THEN " = " ELSE " < ") \o right

\* C24: a column-to-column comparison renders
\* "leftTable.leftColumn OP rightTable.rightColumn" exactly when both table
\* names are non-empty; when either is empty it renders
\* "leftColumn OP rightColumn", neither side qualified.
C24_ColumnComparisonQualifiedWhenBothTables ==
    /\ \A lt \in LeftTables, rt \in RightTables, op \in {"Eq", "Lt"} :
           /\ ConditionToString(ConditionColumnColumn(lt, "id", op, rt, "user_id"))
                  = IF lt # "" /\ rt # ""
                    THEN Compared(lt \o ".id", op, rt \o ".user_id")
                    ELSE Compared("id", op, "user_id")
           /\ ConditionToString(ConditionColumns("id", op, "user_id"))
                  = Compared("id", op, "user_id")
    /\ \A i \in 1..Len(qb.where_conditions) :
           LET c == qb.where_conditions[i]
           IN (c \in ColumnComparisons /\ qb.table # "" /\ Len(qb.where_conditions) = 1)
              => build(qb, FALSE).ret.text
                     = "SELECT * FROM " \o qb.table \o " WHERE "
                       \o (IF c = ConditionColumnColumn("users", "id", "Eq",
                                                        "orders", "user_id")
                           THEN "users.id = orders.user_id"
                           ELSE "id = user_id")

\* C24 witness: build() rendered a comparison with both tables and one with
\* the left table only.
C24_Witness ==
    /\ qb.where_conditions
           = <<ConditionColumnColumn("users", "id", "Eq", "orders", "user_id"),
               ConditionColumnColumn("users", "id", "Eq", "", "user_id")>>
    /\ ret = Text("None",
                  "SELECT * FROM users WHERE users.id = orders.user_id"
                  \o " AND id = user_id")

\* Every predicate at hand in a state: the entries of the predicate list and
\* the default-constructed condition.
AnyAtHand ==
    {Condition} \cup {qb.where_conditions[i] :
                         i \in 1..Len(qb.where_conditions)}

\* C29: !!p renders the text p renders, for every predicate p; and after
\* !p, p && q and p || q are computed, p and q render as they did before.
C29_NegationIsInvolution ==
    \A p \in AnyAtHand :
        /\ ConditionToString(callNot(callNot(p).result).result)
               = ConditionToString(p)
        /\ ConditionToString(opNot(opNot(p))) = ConditionToString(p)
        /\ ConditionToString(callNot(p).this) = ConditionToString(p)
        /\ \A q \in AnyAtHand :
               /\ ConditionToString(callAnd(p, q).this) = ConditionToString(p)
               /\ ConditionToString(callAnd(p, q).other) = ConditionToString(q)
               /\ ConditionToString(callOr(p, q).this) = ConditionToString(p)
               /\ ConditionToString(callOr(p, q).other) = ConditionToString(q)

\* C29 witness: build() rendered a predicate list that holds the negation of
\* a BETWEEN and, after it, the BETWEEN itself, which is what the negation of
\* the negation is.
C29_Witness ==
    /\ qb.where_conditions
           = <<opNot(ConditionBetween("age", "Between", IntValue(18),
                                      IntValue(65))),
               opNot(opNot(ConditionBetween("age", "Between", IntValue(18),
                                            IntValue(65))))>>
    /\ ret = Text("None",
                  "SELECT * FROM users WHERE NOT (age BETWEEN 18 AND 65)"
                  \o " AND age BETWEEN 18 AND 65")

\* The builder b without the clauses that follow GROUP BY and HAVING.
EndingAtGroupBy(b) ==
    [b EXCEPT !.order_by = <<>>, !.limit = -1, !.offset = -1]

\* C26: a rendered Select has the HAVING clause only when the group-by list
\* and the HAVING text are both non-empty; having(text) without a groupBy()
\* adds nothing to the output and records no error.
C26_HavingOnlyWithGroupBy ==
    (qb.type = "Select" /\ qb.table # "")
    => \A h \in HavingArgs \cup {""} :
           LET e == having(qb, h)
               bare == [qb EXCEPT !.having = ""]
           IN /\ e = Effect([qb EXCEPT !.having = h], Self("None"))
              /\ build(e.b, FALSE).ret.err = "None"
              /\ build(e.b, FALSE).ret.text = Joined(SelectClauses(e.b), " ")
              /\ IF qb.group_by # <<>> /\ h # ""
                 THEN /\ build(EndingAtGroupBy(e.b), FALSE).ret.text
                             = build(EndingAtGroupBy(bare), FALSE).ret.text
                               \o " HAVING " \o h
                      /\ build(e.b, FALSE).ret # build(bare, FALSE).ret
                 ELSE build(e.b, FALSE) = Effect(e.b, build(bare, FALSE).ret)

\* C26 witness: build() returned a SELECT without HAVING, and without error,
\* for a builder whose HAVING text is set and whose group-by list is empty.
C26_Witness ==
    /\ qb.having = "COUNT(*) > 1"
    /\ qb.group_by = <<>>
    /\ qb.last_error = nullopt
    /\ ret = Text("None", "SELECT * FROM users ORDER BY name ASC")

\* The builder b, and b after value() and set() added one and two pairs.
WithPairs(b) ==
    LET one == value(b, FALSE, "name", TextValue(<<"O", "'", "B">>)).b
    IN {b, one, set(one, FALSE, "age", IntValue(42)).b}

\* A fresh builder that has of b only what a statement of b's kind is to
\* depend on.
OnlyWhatCounts(b) ==
    CASE b.type \in {"Insert", "InsertOrReplace"} ->
             [QueryBuilder EXCEPT !.type = b.type, !.table = b.table,
                                  !.values = b.values]
      [] b.type = "Update" ->
             [QueryBuilder EXCEPT !.type = b.type, !.table = b.table,
                                  !.values = b.values,
                                  !.where_conditions = b.where_conditions]
      [] b.type = "Delete" ->
             [QueryBuilder EXCEPT !.type = b.type, !.table = b.table,
                                  !.where_conditions = b.where_conditions]
      [] b.type = "Truncate" ->
             [QueryBuilder EXCEPT !.type = b.type, !.table = b.table]

\* C27: what a statement other than a Select renders does not depend on the
\* state of a Select: an INSERT or INSERT OR REPLACE depends on table and
\* value pairs only, an UPDATE on table, value pairs and predicates, a DELETE
\* on table and predicates, a TRUNCATE on the table; select columns, joins,
\* group-by, HAVING, order-by, LIMIT, OFFSET and DISTINCT never show.
C27_SelectStateNeverShows ==
    LET P(k, e) ==
            \A b \in WithPairs(e.b) :
                build(b, FALSE).ret = build(OnlyWhatCounts(b), FALSE).ret
    IN AllKindCalls(qb, "users", P)

\* C27 witness: build() returned a DELETE with its predicate and nothing
\* else, on a builder that holds select columns, a join, group-by, HAVING,
\* order-by, LIMIT, OFFSET and DISTINCT.
C27_Witness ==
    /\ qb.type = "Delete"
    /\ qb.distinct
    /\ Len(qb.select_columns) > 0
    /\ Len(qb.joins) > 0
    /\ Len(qb.group_by) > 0
    /\ qb.having # ""
    /\ Len(qb.order_by) > 0
    /\ qb.limit >= 0
    /\ qb.offset >= 0
    /\ ret = Text("None", "DELETE FROM users WHERE age > 18")

\* The pairs of b as the INSERT and the UPDATE renderer are to show them.
InsertText(b) ==
    "INSERT INTO users ("
    \o Joined([i \in 1..Len(b.values) |-> b.values[i][1]], ", ")
    \o ") VALUES ("
    \o Joined([i \in 1..Len(b.values) |-> toSqlString(b.values[i][2])], ", ")
    \o ")"

UpdateText(b) ==
    "UPDATE users SET "
    \o Joined([i \in 1..Len(b.values) |->
                  b.values[i][1] \o " = " \o toSqlString(b.values[i][2])], ", ")

\* The call was accepted and put the pair a behind the pairs of b.
PairAppended(b, e, a) ==
    /\ e.ret = Self("None")
    /\ e.b = [b EXCEPT !.values = Append(b.values, a)]

\* C28: value() and set() append to one list of pairs with the one limit
\* MaxColumns: either call puts its pair behind the pairs of both calls or,
\* on a full list, is turned down with TooManyColumns; so the pairs accepted
\* from both calls together never exceed MaxColumns, and the INSERT and the
\* UPDATE renderer both show them all, in the order they were added.
C28_ValueAndSetShareOneList ==
    /\ Len(qb.values) <= MaxColumns
    /\ Len(qbT.values) <= MaxColumns
    /\ \A a \in ValueArgs \cup {<<"name", TextValue(s)>> : s \in Texts} :
           /\ value(qb, FALSE, a[1], a[2]) = set(qb, FALSE, a[1], a[2])
           /\ value(qbT, TRUE, a[1], a[2]) = set(qbT, TRUE, a[1], a[2])
           /\ IF Len(qb.values) < MaxColumns
              THEN /\ PairAppended(qb, value(qb, FALSE, a[1], a[2]), a)
                   /\ PairAppended(qbT, set(qbT, TRUE, a[1], a[2]), a)
              ELSE /\ TurnedDown(qb, set(qb, FALSE, a[1], a[2]),
                                 "values", "TooManyColumns")
                   /\ TurnedDown(qb, value(qb, FALSE, a[1], a[2]),
                                 "values", "TooManyColumns")
    /\ Len(qb.values) > 0
       => /\ build(insert(qb, "users").b, FALSE).ret
                 = Text("None", InsertText(qb))
          /\ build(update(qb, "users").b, FALSE).ret
                 = Text("None", UpdateText(qb))

\* C28 witness: build() returned an INSERT whose first pair value() added
\* and whose second pair set() added, and a third call was turned down
\* before it.
C28_Witness ==
    /\ qb.values = <<<<"name", TextValue(<<"a">>)>>, <<"age", IntValue(42)>>>>
    /\ qb.last_error.code = "TooManyColumns"
    /\ ret = Text("None", "INSERT INTO users (name, age) VALUES ('a', 42)")

\* Every call but reset(), made on the builder b with the error policy
\* ThrowOnError; P is asked of each effect.
AllCallsButReset(b, ThrowOnError, P(_)) ==
    /\ \A cols \in SelectArgs : P(select(b, ThrowOnError, cols))
    /\ \A cols \in SpanArgs : P(selectSpan(b, ThrowOnError, cols))
    /\ \A t \in Tables :
           /\ P(from(b, t))
           /\ P(insert(b, t))
           /\ P(insertOrReplace(b, t))
           /\ P(update(b, t))
           /\ P(deleteFrom(b, t))
           /\ P(truncate(b, t))
    /\ \A c \in Conditions : P(where(b, ThrowOnError, c))
    /\ P(whereFn(b, ThrowOnError, <<>>))
    /\ P(whereIn(b, ThrowOnError, "id", <<IntValue(1), IntValue(2)>>))
    /\ P(whereNotIn(b, ThrowOnError, "id", <<IntValue(1), IntValue(2)>>))
    /\ P(whereBetween(b, ThrowOnError, "age", IntValue(18), IntValue(65)))
    /\ P(whereLike(b, ThrowOnError, "name", <<"J", "%">>))
    /\ P(whereNull(b, ThrowOnError, "email"))
    /\ P(whereNotNull(b, ThrowOnError, "email"))
    /\ P(whereExists(b, ThrowOnError, "SELECT 1"))
    /\ P(whereRaw(b, ThrowOnError, "age > 18"))
    /\ \A t \in JoinTables, c \in JoinConditions :
           /\ P(innerJoin(b, ThrowOnError, t, c))
           /\ P(leftJoin(b, ThrowOnError, t, c))
           /\ P(rightJoin(b, ThrowOnError, t, c))
           /\ P(fullJoin(b, ThrowOnError, t, c))
    /\ \A asc \in BOOLEAN : P(orderBy(b, ThrowOnError, "name", asc))
    /\ \A c \in GroupColumns : P(groupBy(b, ThrowOnError, c))
    /\ \A h \in HavingArgs : P(having(b, h))
    /\ \A n \in LimitArgs : P(limit(b, n))
    /\ \A n \in OffsetArgs : P(offset(b, n))
    /\ P(distinct(b))
    /\ \A a \in ValueArgs :
           /\ P(value(b, ThrowOnError, a[1], a[2]))
           /\ P(set(b, ThrowOnError, a[1], a[2]))
    /\ P(buildResult(b))
    /\ P(build(b, ThrowOnError))

\* The call with the effect e left the recorded error of b alone, or it
\* failed and the recorded error is now the error it failed with.
KeptOrOverwritten(b, e) ==
    /\ e.ret.err = "None" => e.b.last_error = b.last_error
    /\ e.b.last_error # b.last_error
       => /\ e.ret.err # "None"
          /\ e.b.last_error.code = e.ret.err

\* C25: once an error is recorded, no call that succeeds clears it, build()
\* and buildResult() included; lastError() changes only when a later call
\* fails and records its error, which lastError() reports from then on, or
\* when reset() clears it.
C25_LastErrorIsSticky ==
    /\ qb.last_error # nullopt
       => LET P(e) == KeptOrOverwritten(qb, e)
          IN AllCallsButReset(qb, FALSE, P)
    /\ qbT.last_error # nullopt
       => LET P(e) == KeptOrOverwritten(qbT, e)
          IN AllCallsButReset(qbT, TRUE, P)
    /\ reset(qb).b.last_error = nullopt
    /\ reset(qbT).b.last_error = nullopt

\* C25 witness: build() without a table recorded EmptyTable; a kind call
\* then named the table, build() returned the statement, and lastError()
\* still reports EmptyTable.
C25_Witness ==
    /\ qb.last_error = QueryError("EmptyTable", "Table name is required")
    /\ qb.table = "users"
    /\ ret = Text("None", "UPDATE users SET age = 42")

====
